---- MODULE Spec2Model ----
(***************************************************************************)
(* Model of the ISS tracker's data cache (NASADataManager) and of the      *)
(* request path that reads it (App.get_data), src/iss_tracker.py.          *)
(*                                                                         *)
(* Time is counted in whole minutes.  An optional value (Python's None or  *)
(* a value) is the empty sequence or a one-element sequence.               *)
(***************************************************************************)
EXTENDS Integers, Sequences, FiniteSets, TLC

VARIABLES
  header,          \* NASADataManager.header
  metadata,        \* NASADataManager.metadata
  comments,        \* NASADataManager.comments
  data,            \* NASADataManager.data
  data_timestamp,  \* NASADataManager.data_timestamp
  now,             \* the wall clock read by datetime.utcnow()
  last,            \* history of the last completed fetch_current_data call
  pc,              \* per request thread: the statement it is about to run
  fetched,         \* per request thread: the tuple _fetch_data returned to it
  got,             \* per request thread: what get_data handed to the handler
  stamp_src,       \* history: the fetch result whose refresh set data_timestamp
  http,            \* the last request served by a handler of App, and its response
  parsed           \* history: the last document _fetch_data was given, and its error

cache == <<header, metadata, comments, data, data_timestamp>>
threadVars == <<pc, fetched, got, stamp_src>>
vars == <<header, metadata, comments, data, data_timestamp, now, last,
          pc, fetched, got, stamp_src, http, parsed>>

----------------------------------------------------------------------------
(* Bounds of the model *)

MaxTime == 31
MaxFetchDur == 1
MaxTimeConc == 16
MaxTimeApi == 6
NumThreads == 2

(* timedelta(minutes=15) *)
TTL == 15

None == <<>>
Some(x) == <<x>>

Threads == 1..NumThreads

----------------------------------------------------------------------------
(* Text and time.  A text is either plain, a sequence of one-character   *)
(* strings, or in the shape of ISS_TRAJECTORY_DATA_DATETIME_FORMAT,        *)
(* '%Y-%jT%H:%M:%S.%fZ', and then kept as its fields: the year, the day of *)
(* the year, the minute of the time line that its hour and minute name,    *)
(* and the digits of its fraction.  The time line is counted in            *)
(* milliseconds from a base instant, 12:00 on day 60 of 2024; the clock    *)
(* `now` counts whole minutes from the same instant.                       *)

MsPerMinute == 60000

DecimalChars == {"0", "1", "2", "3", "4", "5", "6", "7", "8", "9"}

(* characters str.isnumeric accepts: the decimal digits and numeric signs  *)
(* such as the superscript two, which int() does not accept                *)
NumericChars == DecimalChars \cup {"^2"}

DigitValue(c) ==
  CASE c = "0" -> 0 [] c = "1" -> 1 [] c = "2" -> 2 [] c = "3" -> 3
    [] c = "4" -> 4 [] c = "5" -> 5 [] c = "6" -> 6 [] c = "7" -> 7
    [] c = "8" -> 8 [] c = "9" -> 9

PlainText(chars) ==
  [kind |-> "plain", chars |-> chars, year |-> 0, doy |-> 0, minute |-> 0, frac |-> <<>>]

StampText(year, doy, minute, frac) ==
  [kind |-> "stamp", chars |-> <<>>, year |-> year, doy |-> doy, minute |-> minute,
   frac |-> frac]

(* str.isnumeric: not empty and every character numeric; a timestamp text  *)
(* holds '-', 'T', ':' and '.'                                             *)
isnumeric(s) ==
  /\ s.kind = "plain"
  /\ Len(s.chars) > 0
  /\ \A i \in 1..Len(s.chars) : s.chars[i] \in NumericChars

RECURSIVE DecimalValue(_)
DecimalValue(s) ==
  IF s = <<>> THEN 0
  ELSE 10 * DecimalValue(SubSeq(s, 1, Len(s) - 1)) + DigitValue(s[Len(s)])

(* int(s): the value of a string of decimal digits, ValueError otherwise *)
int(s) ==
  IF /\ s.kind = "plain"
     /\ Len(s.chars) > 0
     /\ \A i \in 1..Len(s.chars) : s.chars[i] \in DecimalChars
    THEN [ok |-> TRUE, value |-> DecimalValue(s.chars)]
    ELSE [ok |-> FALSE, value |-> 0]

(* %f: one to six digits, padded with zeros on the right; in milliseconds *)
FractionMs(frac) ==
  CASE Len(frac) = 1 -> 100 * DecimalValue(frac)
    [] Len(frac) = 2 -> 10 * DecimalValue(frac)
    [] Len(frac) = 3 -> DecimalValue(frac)

(* datetime.strptime(text, ISS_TRAJECTORY_DATA_DATETIME_FORMAT): a naive   *)
(* datetime, or ValueError (a day of year 000, no fraction digits, a text  *)
(* that is no timestamp at all)                                            *)
strptime(text) ==
  IF /\ text.kind = "stamp"
     /\ text.doy >= 1
     /\ Len(text.frac) \in 1..3
    THEN [ok |-> TRUE,
          value |-> [year |-> text.year, doy |-> text.doy,
                     ms |-> text.minute * MsPerMinute + FractionMs(text.frac)]]
    ELSE [ok |-> FALSE, value |-> [year |-> 0, doy |-> 0, ms |-> 0]]

(* datetime.timestamp() of a naive datetime: the instant as a number;      *)
(* ValueError ('year 0 is out of range') on the first day of year 1        *)
timestamp(dt) ==
  IF dt.year = 1 /\ dt.doy = 1
    THEN [ok |-> FALSE, value |-> 0]
    ELSE [ok |-> TRUE, value |-> dt.ms]

(* datetime.utcnow().timestamp() *)
NowTimestamp(t) == t * MsPerMinute

----------------------------------------------------------------------------
(* NASADataManager._fetch_data: the parsed feed and what is made of it *)

(* A float, and the text of one.  The finite values of the model are the  *)
(* integers, so that a result between two of them is rounded; next to them *)
(* stand nan, the infinities, a finite value whose square is beyond the    *)
(* largest float (1e200) and a nonzero value whose square is below the     *)
(* smallest one (1e-200).  v is the value of a finite float and the sign   *)
(* of an infinite, a huge or a tiny one.                                   *)
Finite(n) == [kind |-> "finite", v |-> n]
NaN == [kind |-> "nan", v |-> 0]
Infinity(sign) == [kind |-> "inf", v |-> sign]
Huge(sign) == [kind |-> "huge", v |-> sign]
Tiny(sign) == [kind |-> "tiny", v |-> sign]

(* a text float() cannot read, such as 'abc' *)
Word == [kind |-> "word", v |-> 0]

(* float(text): the number the text spells, or ValueError *)
float(text) == [ok |-> text.kind # "word", value |-> text]

Vec(a, b, c) == <<Finite(a), Finite(b), Finite(c)>>

(* One stateVector element as xmltodict hands it over *)
StateVector(epoch, pos, vel) ==
  [EPOCH |-> epoch, X |-> pos[1], Y |-> pos[2], Z |-> pos[3],
   X_DOT |-> vel[1], Y_DOT |-> vel[2], Z_DOT |-> vel[3]]

BaseStamp(minute, frac) == StampText(2024, 60, minute, frac)

SvA == StateVector(BaseStamp(6, <<"0", "0", "0">>), Vec(1, 0, 0), Vec(0, 0, 0))
SvB == StateVector(BaseStamp(0, <<"0", "0", "0">>), Vec(0, 2, 0), Vec(1, 2, 2))
SvC == StateVector(BaseStamp(4, <<"0", "0", "0">>), Vec(0, 0, 3), Vec(2, 3, 6))
SvC2 == StateVector(BaseStamp(4, <<"0", "0", "0">>), Vec(4, 0, 0), Vec(0, 3, 4))
SvD == StateVector(BaseStamp(4, <<"5", "0", "0">>), Vec(0, 5, 0), Vec(0, 0, 1))
SvBad == StateVector(StampText(2024, 0, 0, <<"0", "0", "0">>), Vec(0, 0, 6), Vec(0, 0, 0))
SvWord == StateVector(BaseStamp(2, <<"0", "0", "0">>), Vec(0, 0, 7), <<Finite(1), Word, Finite(0)>>)

(* The stateVector entry of the parsed document.  xmltodict gives a list   *)
(* for an element that occurs twice or more, the element's own dict for    *)
(* one that occurs once, None for an empty element, and no key at all for  *)
(* an element that does not occur.                                         *)
SvList(items) == [shape |-> "list", items |-> items]
SvDict(item) == [shape |-> "dict", items |-> <<item>>]
SvNone == [shape |-> "none", items |-> <<>>]
SvMissing == [shape |-> "missing", items |-> <<>>]

(* A value of the header or metadata dict: a text, a datetime, or None for *)
(* an empty element                                                        *)
NoInstant == [year |-> 0, doy |-> 0, ms |-> 0]
StrValue(text) == [type |-> "str", text |-> text, instant |-> NoInstant]
DatetimeValue(dt) == [type |-> "datetime", text |-> PlainText(<<>>), instant |-> dt]
NoneValue == [type |-> "None", text |-> PlainText(<<>>), instant |-> NoInstant]

(* A document that is XML and has the ndm/oem path *)
Feed(h, m, c, sv) ==
  [xml |-> TRUE, oem |-> TRUE,
   header |-> h, metadata |-> m, comments |-> c, stateVector |-> sv]

(* <ndm></ndm>: XML without the oem element *)
EmptyNdm ==
  [xml |-> TRUE, oem |-> FALSE,
   header |-> <<>>, metadata |-> <<>>, comments |-> "", stateVector |-> SvMissing]

(* a response text that is not XML *)
NotXml ==
  [xml |-> FALSE, oem |-> FALSE,
   header |-> <<>>, metadata |-> <<>>, comments |-> "", stateVector |-> SvMissing]

(* re.fullmatch(ISS_TRAJECTORY_DATA_DATETIME_REGEX, v): the timestamp     *)
(* layout with exactly three fraction digits, whatever the digits say      *)
fullmatch(text) == text.kind = "stamp" /\ Len(text.frac) = 3

ConvertValue_Always(v) ==
  IF strptime(v.text).ok THEN DatetimeValue(strptime(v.text).value) ELSE v

(* lines 99-104: a matching value becomes a datetime; when strptime       *)
(* raises, a warning is logged and the value stays                         *)
ConvertValue(v) ==
  IF fullmatch(v.text) /\ strptime(v.text).ok
    THEN DatetimeValue(strptime(v.text).value)
    ELSE v

(* lines 97-104 over one dict; re.fullmatch raises TypeError on a value   *)
(* that is not a string                                                    *)
FormatSidecar(d) ==
  [ok |-> \A i \in 1..Len(d) : d[i].type = "str",
   value |-> [i \in 1..Len(d) |-> ConvertValue(d[i])]]

(* lines 108-116: one formatted epoch *)
FormatEpoch(sv) ==
  [timestamp |-> strptime(sv.EPOCH).value,
   x |-> float(sv.X).value, y |-> float(sv.Y).value, z |-> float(sv.Z).value,
   dx |-> float(sv.X_DOT).value, dy |-> float(sv.Y_DOT).value,
   dz |-> float(sv.Z_DOT).value]

(* lines 109-115: float() reads each of the six numbers *)
FloatsRead(sv) ==
  /\ float(sv.X).ok /\ float(sv.Y).ok /\ float(sv.Z).ok
  /\ float(sv.X_DOT).ok /\ float(sv.Y_DOT).ok /\ float(sv.Z_DOT).ok

FormatEpochs_Lenient(sv) ==
  IF /\ \A i \in 1..Len(sv.items) : strptime(sv.items[i].EPOCH).ok
     /\ \A i \in 1..Len(sv.items) : FloatsRead(sv.items[i])
    THEN [ok |-> TRUE, value |-> [i \in 1..Len(sv.items) |-> FormatEpoch(sv.items[i])]]
    ELSE [ok |-> FALSE, value |-> <<>>]

(* lines 107-116: the list comprehension over state_vectors.  Iterating a  *)
(* single element's dict yields its keys, and indexing a key with 'EPOCH'  *)
(* raises; iterating None raises; a missing key raises.                    *)
FormatEpochs(sv) ==
  IF /\ sv.shape = "list"
     /\ \A i \in 1..Len(sv.items) : strptime(sv.items[i].EPOCH).ok
     /\ \A i \in 1..Len(sv.items) : FloatsRead(sv.items[i])
    THEN [ok |-> TRUE, value |-> [i \in 1..Len(sv.items) |-> FormatEpoch(sv.items[i])]]
    ELSE [ok |-> FALSE, value |-> <<>>]

(* lines 93-120: the tuple _fetch_data returns; the error of             *)
(* xmltodict.parse (line 93, before the try) on a text that is not XML;   *)
(* or ValueError('Invalid data format') for whatever is raised inside the *)
(* try                                                                    *)
fetch_data(feed) ==
  LET h == FormatSidecar(feed.header)
      m == FormatSidecar(feed.metadata)
      epochs == FormatEpochs(feed.stateVector)
      ok == feed.xml /\ feed.oem /\ h.ok /\ m.ok /\ epochs.ok
  IN  [ok |-> ok,
       error |-> IF ok THEN "none"
                 ELSE IF ~feed.xml THEN "ExpatError"
                 ELSE "Invalid data format",
       value |-> [header |-> h.value, metadata |-> m.value,
                  comments |-> feed.comments, data |-> epochs.value]]

(* header and metadata dicts: a plain text and a text in timestamp layout *)
Header1 == <<StrValue(PlainText(<<"1">>)), StrValue(BaseStamp(0, <<"0", "0", "0">>))>>
Header2 == <<StrValue(PlainText(<<"2">>)), StrValue(BaseStamp(4, <<"5">>))>>
Header3 == <<StrValue(PlainText(<<"3">>)), StrValue(BaseStamp(4, <<"0", "0", "0">>))>>
HeaderEmptyElement == <<StrValue(PlainText(<<"3">>)), NoneValue>>
Metadata1 ==
  <<StrValue(PlainText(<<"U", "T", "C">>)), StrValue(BaseStamp(6, <<"0", "0", "0">>))>>
Metadata2 ==
  <<StrValue(PlainText(<<"I", "S", "S">>)),
    StrValue(StampText(2024, 0, 0, <<"0", "0", "0">>)),
    StrValue(BaseStamp(6, <<"0", "0", "0">>))>>

(* Two feed contents that differ in every component *)
BasicFeeds ==
  { Feed(Header1, Metadata1, "c1", SvList(<<SvA, SvB>>)),
    Feed(Header2, Metadata2, "c2", SvList(<<SvB, SvC, SvA>>)) }

(* Documents _fetch_data cannot return a tuple for: an empty header      *)
(* element, a state vector whose EPOCH is no date, one whose Y_DOT is no  *)
(* number, no oem element, no XML                                         *)
BrokenFeeds ==
  { Feed(HeaderEmptyElement, Metadata1, "c3", SvList(<<SvA, SvB>>)),
    Feed(Header1, Metadata1, "c4", SvList(<<SvA, SvBad>>)),
    Feed(Header1, Metadata1, "c5", SvList(<<SvWord, SvB>>)),
    EmptyNdm,
    NotXml }

(* A document together with what _fetch_data makes of it *)
Outcome(f) == [doc |-> f, result |-> fetch_data(f)]

SpecOutcomes == { Outcome(f) : f \in BasicFeeds \cup BrokenFeeds }

(* What a successful _fetch_data returns: (header, metadata, comments,     *)
(* formatted_epochs).                                                      *)
FeedResults == { fetch_data(f).value : f \in { g \in BasicFeeds : fetch_data(g).ok } }

(* What a request has been answered so far *)
NoResponse == [status |-> "none", value |-> None]

(* A response: the status and, unless the request was aborted, the body *)
Response(status, body) == [status |-> status, body |-> body]

(* flask.abort(code); an exception no handler catches ends as status 500 *)
Abort(code) == Response(code, None)

(* No document: nothing was requested yet, or the request itself failed *)
NoDocument == [sent |-> FALSE, doc |-> NotXml, error |-> "none"]

(* The document _fetch_data was given, and what it raised *)
KeepDocument(o) == [sent |-> TRUE, doc |-> o.doc, error |-> o.result.error]

(* the handlers keep no history of the documents *)
KeepNothing(o) == NoDocument

(* What the handlers have served so far: nothing *)
NoRequest ==
  [handler |-> "none", selector |-> PlainText(<<>>), limit |-> None, offset |-> None,
   getDataCalls |-> 0, searched |-> None, geocoder |-> "unused",
   response |-> Abort(0)]

(* The five cache fields as one record *)
Entry ==
  [header |-> header, metadata |-> metadata, comments |-> comments,
   data |-> data, data_timestamp |-> data_timestamp]

EmptyEntry ==
  [header |-> None, metadata |-> None, comments |-> None,
   data |-> None, data_timestamp |-> None]

----------------------------------------------------------------------------
(* NASADataManager.fetch_current_data, one whole call *)

IsFresh_Inclusive(ts, t) == ts # None /\ ts[1] >= t - TTL

(* the staleness test of line 69 *)
IsFresh(ts, t) == ts # None /\ ts[1] > t - TTL

(* What one call did: the entry and the clock it found, how often it called *)
(* _fetch_data and with what outcome, when it returned and what.           *)
CallRecord(calls, outcome, returned, ret, d) ==
  [pre |-> Entry, checkedAt |-> now, calls |-> calls, outcome |-> outcome,
   returned |-> returned, ret |-> ret, doneAt |-> now + d, prevRet |-> last.ret]

CacheHit_Sliding ==
  /\ data_timestamp' = Some(now)
  /\ UNCHANGED <<header, metadata, comments, data, now>>
  /\ last' = CallRecord(0, "none", None, "True", 0)

(* lines 69-70: the entry is fresh, return True *)
CacheHit ==
  /\ UNCHANGED <<header, metadata, comments, data, data_timestamp, now>>
  /\ last' = CallRecord(0, "none", None, "True", 0)

CacheRefresh_Merge(r, d) ==
  /\ header' = IF header = None THEN Some(r.header) ELSE header
  /\ metadata' = Some(r.metadata)
  /\ comments' = Some(r.comments)
  /\ data' = Some(r.data)
  /\ now' = now + d
  /\ data_timestamp' = Some(now + d)
  /\ last' = CallRecord(1, "ok", Some(r), "True", d)

(* lines 72-74: _fetch_data returned r after d minutes *)
CacheRefresh(r, d) ==
  /\ header' = Some(r.header)
  /\ metadata' = Some(r.metadata)
  /\ comments' = Some(r.comments)
  /\ data' = Some(r.data)
  /\ now' = now + d
  /\ data_timestamp' = Some(now + d)
  /\ last' = CallRecord(1, "ok", Some(r), "True", d)

CacheClear_KeepData(d) ==
  /\ header' = None
  /\ metadata' = None
  /\ comments' = None
  /\ UNCHANGED data
  /\ data_timestamp' = None
  /\ now' = now + d
  /\ last' = CallRecord(1, "err", None, "False", d)

CacheClear_StampFailure(d) ==
  /\ header' = None
  /\ metadata' = None
  /\ comments' = None
  /\ data' = None
  /\ data_timestamp' = Some(now + d)
  /\ now' = now + d
  /\ last' = CallRecord(1, "err", None, "False", d)

CacheClear_KeepStamp(d) ==
  /\ header' = None
  /\ metadata' = None
  /\ comments' = None
  /\ data' = None
  /\ UNCHANGED data_timestamp
  /\ now' = now + d
  /\ last' = CallRecord(1, "err", None, "False", d)

CacheClear_ServeStale(d) ==
  /\ UNCHANGED <<header, metadata, comments, data, data_timestamp>>
  /\ now' = now + d
  /\ last' = CallRecord(1, "err", None, "True", d)

(* lines 75-81: _fetch_data raised after d minutes *)
CacheClear(d) ==
  /\ header' = None
  /\ metadata' = None
  /\ comments' = None
  /\ data' = None
  /\ data_timestamp' = None
  /\ now' = now + d
  /\ last' = CallRecord(1, "err", None, "False", d)

(* lines 57-81 *)
(* outcomes: the documents the upstream may send, each with what         *)
(* _fetch_data makes of it; keep: whether the history keeps the document *)
FetchCurrentData(outcomes, durations, horizon, keep) ==
  IF IsFresh(data_timestamp, now)
    THEN CacheHit /\ UNCHANGED parsed
    ELSE \E d \in durations :
           /\ now + d <= horizon
           /\ \/ \E o \in outcomes :
                   /\ parsed' = IF keep THEN KeepDocument(o) ELSE KeepNothing(o)
                   /\ IF o.result.ok THEN CacheRefresh(o.result.value, d)
                                     ELSE CacheClear(d)
              \/ CacheClear(d) /\ parsed' = NoDocument

fetch_current_data ==
  /\ FetchCurrentData(SpecOutcomes, 0..MaxFetchDur, MaxTime, TRUE)
  /\ UNCHANGED <<threadVars, http>>

(* time passes between calls *)
Tick ==
  /\ now < MaxTime
  /\ now' = now + 1
  /\ UNCHANGED <<cache, last, http, parsed, threadVars>>

(* lines 44-55: a new NASADataManager *)
Init ==
  /\ header = None
  /\ metadata = None
  /\ comments = None
  /\ data = None
  /\ data_timestamp = None
  /\ now = 0
  /\ last = [pre |-> EmptyEntry, checkedAt |-> 0, calls |-> 0, outcome |-> "none",
             returned |-> None, ret |-> "none", doneAt |-> 0, prevRet |-> "none"]
  /\ pc = [t \in Threads |-> "idle"]
  /\ fetched = [t \in Threads |-> None]
  /\ got = [t \in Threads |-> NoResponse]
  /\ stamp_src = None
  /\ http = NoRequest
  /\ parsed = NoDocument

Next == fetch_current_data \/ Tick

Spec == Init /\ [][Next]_vars

----------------------------------------------------------------------------
(* Concurrent requests.  Flask's development server (App.run, line 229)   *)
(* serves each request on a thread of its own, and every handler reaches  *)
(* the one NASADataManager of the App through get_data.  Nothing in       *)
(* fetch_current_data or get_data takes a lock, so the threads interleave *)
(* between any two statements and between the attribute stores of one     *)
(* statement.                                                             *)

Goto(t, label) == pc' = [pc EXCEPT ![t] = label]

(* line 246: a handler calls get_data, which calls fetch_current_data *)
StartRequest(t) ==
  /\ pc[t] = "idle"
  /\ Goto(t, "check")
  /\ got' = [got EXCEPT ![t] = NoResponse]
  /\ UNCHANGED <<cache, now, last, http, parsed, fetched, stamp_src>>

(* lines 69-70: the staleness test; a fresh entry returns True at once *)
CheckStale(t) ==
  /\ pc[t] = "check"
  /\ Goto(t, IF IsFresh(data_timestamp, now) THEN "read" ELSE "fetch")
  /\ UNCHANGED <<cache, now, last, http, parsed, fetched, got, stamp_src>>

(* lines 72, 91-117: the upstream answers and _fetch_data returns r *)
FetchReturns(t, r) ==
  /\ pc[t] = "fetch"
  /\ fetched' = [fetched EXCEPT ![t] = Some(r)]
  /\ Goto(t, "store_header")
  /\ UNCHANGED <<cache, now, last, http, parsed, got, stamp_src>>

(* lines 75, 92, 118-120: the upstream answers and _fetch_data raises *)
FetchRaises(t) ==
  /\ pc[t] = "fetch"
  /\ Goto(t, "clear_header")
  /\ UNCHANGED <<cache, now, last, http, parsed, fetched, got, stamp_src>>

(* line 72, the four attribute stores of the tuple assignment *)
StoreHeader(t) ==
  /\ pc[t] = "store_header"
  /\ header' = Some(fetched[t][1].header)
  /\ Goto(t, "store_metadata")
  /\ UNCHANGED <<metadata, comments, data, data_timestamp, now, last, http, parsed, fetched, got, stamp_src>>

StoreMetadata(t) ==
  /\ pc[t] = "store_metadata"
  /\ metadata' = Some(fetched[t][1].metadata)
  /\ Goto(t, "store_comments")
  /\ UNCHANGED <<header, comments, data, data_timestamp, now, last, http, parsed, fetched, got, stamp_src>>

StoreComments(t) ==
  /\ pc[t] = "store_comments"
  /\ comments' = Some(fetched[t][1].comments)
  /\ Goto(t, "store_data")
  /\ UNCHANGED <<header, metadata, data, data_timestamp, now, last, http, parsed, fetched, got, stamp_src>>

StoreData(t) ==
  /\ pc[t] = "store_data"
  /\ data' = Some(fetched[t][1].data)
  /\ Goto(t, "store_timestamp")
  /\ UNCHANGED <<header, metadata, comments, data_timestamp, now, last, http, parsed, fetched, got, stamp_src>>

(* lines 73-74: stamp the entry and return True *)
StoreTimestamp(t) ==
  /\ pc[t] = "store_timestamp"
  /\ data_timestamp' = Some(now)
  /\ stamp_src' = fetched[t]
  /\ fetched' = [fetched EXCEPT ![t] = None]
  /\ Goto(t, "read")
  /\ UNCHANGED <<header, metadata, comments, data, now, last, http, parsed, got>>

(* lines 76-79 *)
ClearHeader(t) ==
  /\ pc[t] = "clear_header"
  /\ header' = None
  /\ Goto(t, "clear_metadata")
  /\ UNCHANGED <<metadata, comments, data, data_timestamp, now, last, http, parsed, fetched, got, stamp_src>>

ClearMetadata(t) ==
  /\ pc[t] = "clear_metadata"
  /\ metadata' = None
  /\ Goto(t, "clear_comments")
  /\ UNCHANGED <<header, comments, data, data_timestamp, now, last, http, parsed, fetched, got, stamp_src>>

ClearComments(t) ==
  /\ pc[t] = "clear_comments"
  /\ comments' = None
  /\ Goto(t, "clear_data")
  /\ UNCHANGED <<header, metadata, data, data_timestamp, now, last, http, parsed, fetched, got, stamp_src>>

ClearData(t) ==
  /\ pc[t] = "clear_data"
  /\ data' = None
  /\ Goto(t, "clear_timestamp")
  /\ UNCHANGED <<header, metadata, comments, data_timestamp, now, last, http, parsed, fetched, got, stamp_src>>

(* lines 80-81 and 246-247: clear the stamp, return False; get_data aborts *)
(* the request with status 500                                             *)
ClearTimestamp(t) ==
  /\ pc[t] = "clear_timestamp"
  /\ data_timestamp' = None
  /\ stamp_src' = None
  /\ got' = [got EXCEPT ![t] = [status |-> "500", value |-> None]]
  /\ Goto(t, "idle")
  /\ UNCHANGED <<header, metadata, comments, data, now, last, http, parsed, fetched>>

FieldKinds == {"epochs", "header", "metadata", "comments"}

(* lines 248-255: get_data hands the requested field to its handler *)
ReadField(t, kind) ==
  /\ pc[t] = "read"
  /\ got' = [got EXCEPT ![t] =
               [status |-> "200",
                value |-> CASE kind = "epochs" -> data
                            [] kind = "header" -> header
                            [] kind = "metadata" -> metadata
                            [] kind = "comments" -> comments]]
  /\ Goto(t, "idle")
  /\ UNCHANGED <<cache, now, last, http, parsed, fetched, stamp_src>>

(* time passes while requests are served *)
TickConc ==
  /\ now < MaxTimeConc
  /\ now' = now + 1
  /\ UNCHANGED <<cache, last, http, parsed, threadVars>>

(* the statements a thread runs by itself, without waiting for anyone *)
OwnStep(t) ==
  \/ CheckStale(t)
  \/ StoreHeader(t) \/ StoreMetadata(t) \/ StoreComments(t) \/ StoreData(t)
  \/ StoreTimestamp(t)
  \/ ClearHeader(t) \/ ClearMetadata(t) \/ ClearComments(t) \/ ClearData(t)
  \/ ClearTimestamp(t)
  \/ \E kind \in FieldKinds : ReadField(t, kind)

(* what the surroundings do: a client sends a request, the upstream answers *)
WorldStep(t) ==
  \/ StartRequest(t)
  \/ \E r \in FeedResults : FetchReturns(t, r)
  \/ FetchRaises(t)

NextConc ==
  \/ \E t \in Threads : OwnStep(t)
  \/ \E t \in Threads : WorldStep(t)
  \/ TickConc

SpecConc == Init /\ [][NextConc]_vars

----------------------------------------------------------------------------
(* The request handlers of App, one whole request at a time (SpecApi) *)

Min(a, b) == IF a < b THEN a ELSE b

Abs(x) == IF x < 0 THEN 0 - x ELSE x

(* the list a cache field holds; a field that is None holds no list *)
Dataset(v) == IF v = None THEN <<>> ELSE v[1]

get_data_NoAbort(ret, value) == [ok |-> TRUE, value |-> value]

(* lines 245-255: abort(500) unless fetch_current_data returned True, *)
(* else the requested cache field                                     *)
get_data(ret, value) ==
  IF ret = "True" THEN [ok |-> TRUE, value |-> value]
                  ELSE [ok |-> FALSE, value |-> None]

IndexLookup_Inclusive(n, d) ==
  IF n < Len(d) THEN Response(200, Some([epoch |-> Some(d[n + 1])]))
  ELSE IF n = Len(d) THEN Abort(500)
  ELSE Abort(400)

(* lines 342-345: data[epoch] when the index is in range, else abort(400) *)
IndexLookup(n, d) ==
  IF n < Len(d) THEN Response(200, Some([epoch |-> Some(d[n + 1])]))
                ELSE Abort(400)

(* line 352: the entries whose instant equals the instant t *)
SearchResults(d, t) == SelectSeq(d, LAMBDA e : timestamp(e.timestamp).value = t)

FoundResponse_First(found) ==
  IF Len(found) = 0 THEN Response(200, Some([epoch |-> None]))
                    ELSE Response(200, Some([epoch |-> Some(found[1])]))

(* lines 353-357 *)
FoundResponse(found) ==
  CASE Len(found) = 0 -> Response(200, Some([epoch |-> None]))
    [] Len(found) = 1 -> Response(200, Some([epoch |-> Some(found[1])]))
    [] OTHER          -> Abort(500)

(* lines 347-357: strptime inside the try, the comparison of line 352 *)
(* outside it; the comprehension evaluates timestamp() of the first    *)
(* entry and then of the selector, so nothing is raised on an empty    *)
(* dataset                                                             *)
TimestampLookup(text, d) ==
  LET dt == strptime(text) IN
  IF ~dt.ok THEN Abort(400)
  ELSE IF \/ \E i \in 1..Len(d) : ~timestamp(d[i].timestamp).ok
          \/ d # <<>> /\ ~timestamp(dt.value).ok
         THEN Abort(500)
  ELSE FoundResponse(SearchResults(d, timestamp(dt.value).value))

(* lines 340-357, after get_data returned the dataset d *)
specific_epoch(epoch, d) ==
  IF isnumeric(epoch)
    THEN IF int(epoch).ok THEN IndexLookup(int(epoch).value, d)
                           ELSE Abort(500)
    ELSE TimestampLookup(epoch, d)

(* the root of a finite float, rounded to a float: here to the integer   *)
(* below it                                                              *)
Isqrt(n) == CHOOSE r \in 0..n : r * r <= n /\ n < (r + 1) * (r + 1)

(* x ** 2: OverflowError for a square beyond the largest float, 0.0 for  *)
(* one below the smallest                                                *)
Square(x) ==
  CASE x.kind = "finite" -> [ok |-> TRUE, value |-> Finite(x.v * x.v)]
    [] x.kind = "tiny"   -> [ok |-> TRUE, value |-> Finite(0)]
    [] x.kind = "inf"    -> [ok |-> TRUE, value |-> Infinity(1)]
    [] x.kind = "huge"   -> [ok |-> FALSE, value |-> x]
    [] OTHER             -> [ok |-> TRUE, value |-> NaN]

(* a + b of two squares *)
Add(a, b) ==
  IF a.kind = "nan" \/ b.kind = "nan" THEN NaN
  ELSE IF a.kind = "inf" \/ b.kind = "inf" THEN Infinity(1)
  ELSE Finite(a.v + b.v)

(* math.sqrt of a sum of squares *)
sqrt(x) == IF x.kind = "finite" THEN Finite(Isqrt(x.v)) ELSE x

speed_Planar(epoch) ==
  LET sx == Square(epoch.dx)
      sy == Square(epoch.dy)
  IN  IF sx.ok /\ sy.ok
        THEN [ok |-> TRUE, value |-> sqrt(Add(sx.value, sy.value))]
        ELSE [ok |-> FALSE, value |-> NaN]

(* lines 142-151: the float returned, or the OverflowError of a square *)
speed(epoch) ==
  LET sx == Square(epoch.dx)
      sy == Square(epoch.dy)
      sz == Square(epoch.dz)
  IN  IF sx.ok /\ sy.ok /\ sz.ok
        THEN [ok |-> TRUE, value |-> sqrt(Add(Add(sx.value, sy.value), sz.value))]
        ELSE [ok |-> FALSE, value |-> NaN]

(* the JSON body around a speed, or the 500 of an exception in speed *)
SpeedBody(epoch) ==
  IF speed(epoch).ok THEN Response(200, Some([speed |-> speed(epoch).value]))
                     ELSE Abort(500)

(* lines 153-166: the astropy conversion, kept as a term over its arguments *)
astropy_lla_conversion(epoch) ==
  [frame |-> "ITRS", of |-> <<epoch.x, epoch.y, epoch.z>>, obstime |-> epoch.timestamp]

(* What GEOCODER.reverse does: it raises, returns None, returns a result  *)
(* whose address is a string, a result whose address has the attributes  *)
(* city, municipality and country, or a result without these attributes  *)
Geocoded(kind, address) == [kind |-> kind, address |-> address]

GeocoderOutcomes ==
  { Geocoded("raises", <<>>), Geocoded("none", <<>>), Geocoded("odd", <<>>),
    Geocoded("str", <<"Houston, Texas">>),
    Geocoded("parts", <<"Houston", "Harris", "USA">>) }

(* a string is kept as the sequence of its pieces; '' has none *)
fetch_location_str_FormatsAnyway(geo) ==
  CASE geo.kind = "str"   -> <<geo.address[1]>>
    [] geo.kind = "parts" -> <<geo.address[1], ", ", geo.address[2], ", ", geo.address[3]>>
    [] geo.kind = "odd"   -> <<"None", ", ", "None", ", ", "None">>
    [] OTHER              -> <<>>

(* lines 178-189: the address, or the three attributes joined; the       *)
(* exception of reverse() and the AttributeError of a result without the *)
(* attributes end in the except branch                                   *)
fetch_location_str(geo) ==
  CASE geo.kind = "str"   -> <<geo.address[1]>>
    [] geo.kind = "parts" -> <<geo.address[1], ", ", geo.address[2], ", ", geo.address[3]>>
    [] OTHER              -> <<>>

(* lines 191-203 *)
location(epoch, geo) ==
  [lla |-> astropy_lla_conversion(epoch), locstr |-> fetch_location_str(geo)]

specific_epoch_speed_NoGuard(epoch, d) ==
  LET r == specific_epoch(epoch, d) IN
  IF r.body = None THEN r
  ELSE IF r.body[1].epoch = None THEN Abort(500)
  ELSE SpeedBody(r.body[1].epoch[1])

(* lines 371-374 *)
specific_epoch_speed(epoch, d) ==
  LET r == specific_epoch(epoch, d) IN
  IF r.body = None THEN r
  ELSE IF r.body[1].epoch = None THEN Abort(400)
  ELSE SpeedBody(r.body[1].epoch[1])

(* lines 393-397 *)
specific_epoch_location(epoch, d, geo) ==
  LET r == specific_epoch(epoch, d) IN
  IF r.body = None THEN r
  ELSE IF r.body[1].epoch = None THEN Abort(400)
  ELSE Response(200, Some(location(r.body[1].epoch[1], geo)))

ParamRejected_Never(p) == FALSE

(* lines 307-310: a parameter that is given and not numeric *)
ParamRejected(p) == p # None /\ ~isnumeric(p[1])

Paginate_LimitFirst(d, offset, limit) ==
  SubSeq(SubSeq(d, 1, Min(limit, Len(d))), offset + 1, Min(limit, Len(d)))

(* lines 324-325: data[offset:][0:limit] *)
Paginate(d, offset, limit) ==
  SubSeq(SubSeq(d, offset + 1, Len(d)), 1, Min(limit, Len(d) - offset))

(* lines 312-326, after get_data returned the dataset d *)
epochs(limit, offset, d) ==
  LET o == IF offset = None THEN [ok |-> TRUE, value |-> 0] ELSE int(offset[1]) IN
  IF ~o.ok THEN Abort(500)
  ELSE IF o.value >= Len(d) THEN Abort(400)
  ELSE LET l == IF limit = None THEN [ok |-> TRUE, value |-> Len(d) - o.value]
                                ELSE int(limit[1]) IN
       IF ~l.ok THEN Abort(500)
       ELSE IF l.value = 0 THEN Abort(400)
       ELSE Response(200, Some([data |-> Paginate(d, o.value, l.value)]))

Closer_OrEqual(delta, lowest) == lowest = None \/ delta <= lowest[1]

(* line 136: delta < lowest_delta, where lowest_delta starts as math.inf *)
Closer(delta, lowest) == lowest = None \/ delta < lowest[1]

(* lines 135-139: the loop from entry i on *)
RECURSIVE NearestFrom(_, _, _, _, _)
NearestFrom(d, t, i, best, lowest) ==
  IF i > Len(d) THEN best
  ELSE LET delta == Abs(t - timestamp(d[i].timestamp).value) IN
       IF Closer(delta, lowest) THEN NearestFrom(d, t, i + 1, Some(d[i]), Some(delta))
                                ELSE NearestFrom(d, t, i + 1, best, lowest)

(* lines 122-140, with the clock reading t *)
get_most_current_epoch(d, t) == NearestFrom(d, NowTimestamp(t), 1, None, None)

(* lines 409-419: location(None) raises when nothing was found *)
NowResponse(d, t, geo) ==
  LET current == get_most_current_epoch(d, t) IN
  IF current = None \/ ~speed(current[1]).ok THEN Abort(500)
  ELSE Response(200, Some([epoch |-> current[1], speed |-> speed(current[1]).value,
                           location |-> location(current[1], geo)]))

(* What the upstream may answer to a request of a handler: well-formed  *)
(* documents in several orders, one with two state vectors of the same *)
(* instant, one with a fraction of a second, and documents _fetch_data *)
(* cannot format                                                       *)
ApiFeeds ==
  { Feed(Header1, Metadata1, "c1", SvList(<<SvA, SvB>>)),
    Feed(Header2, Metadata2, "c2", SvList(<<SvB, SvC, SvA>>)),
    Feed(Header3, Metadata1, "c3", SvList(<<SvC, SvB, SvC2>>)),
    Feed(Header1, Metadata2, "c4", SvList(<<SvD, SvC>>)),
    Feed(Header1, Metadata1, "c5", SvList(<<SvA, SvBad>>)),
    Feed(Header1, Metadata1, "c6", SvDict(SvA)),
    Feed(Header1, Metadata1, "c7", SvNone),
    Feed(Header1, Metadata1, "c8", SvMissing) }

ApiOutcomes == { Outcome(f) : f \in ApiFeeds }

(* The <epoch> part of the URL *)
Selectors ==
  { PlainText(<<"0">>), PlainText(<<"2">>), PlainText(<<"3">>),
    PlainText(<<"^2">>), PlainText(<<"x">>),
    BaseStamp(0, <<"0", "0", "0">>), BaseStamp(4, <<"0", "0", "0">>),
    BaseStamp(4, <<"5">>), BaseStamp(7, <<"0", "0", "0">>),
    BaseStamp(4, <<>>),
    StampText(2024, 0, 0, <<"0", "0", "0">>),
    StampText(1, 1, 0, <<"0", "0", "0">>) }

(* The selectors sent to the speed route *)
DerivedSelectors ==
  { PlainText(<<"0">>), PlainText(<<"3">>), PlainText(<<"x">>),
    BaseStamp(4, <<"0", "0", "0">>), BaseStamp(7, <<"0", "0", "0">>) }

(* The selectors sent to the location route *)
LocationSelectors ==
  { PlainText(<<"0">>), BaseStamp(7, <<"0", "0", "0">>) }

(* The limit and offset query parameters: absent or a text *)
PageParams ==
  { None, Some(PlainText(<<"0">>)), Some(PlainText(<<"1">>)), Some(PlainText(<<"2">>)),
    Some(PlainText(<<"x">>)), Some(PlainText(<<"^2">>)) }

NoText == PlainText(<<>>)

Served(handler, selector, limit, offset, calls, searched, response) ==
  [handler |-> handler, selector |-> selector, limit |-> limit, offset |-> offset,
   getDataCalls |-> calls, searched |-> searched, geocoder |-> "unused",
   response |-> response]

(* line 245: the call of fetch_current_data inside get_data; the upstream *)
(* answers within the minute                                             *)
CallCache ==
  /\ FetchCurrentData(ApiOutcomes, {0}, MaxTimeApi, FALSE)
  /\ UNCHANGED threadVars

(* lines 258-267 *)
ServeComments ==
  /\ CallCache
  /\ LET res == get_data(last'.ret, comments') IN
       http' = Served("comments", NoText, None, None, 1, None,
                      IF res.ok THEN Response(200, Some([comments |-> res.value]))
                                ELSE Abort(500))

(* lines 269-279 *)
ServeHeader ==
  /\ CallCache
  /\ LET res == get_data(last'.ret, header') IN
       http' = Served("header", NoText, None, None, 1, None,
                      IF res.ok THEN Response(200, Some([header |-> res.value]))
                                ELSE Abort(500))

(* lines 281-291 *)
ServeMetadata ==
  /\ CallCache
  /\ LET res == get_data(last'.ret, metadata') IN
       http' = Served("metadata", NoText, None, None, 1, None,
                      IF res.ok THEN Response(200, Some([metadata |-> res.value]))
                                ELSE Abort(500))

ServeEpochs_DataFirst(limit, offset) ==
  /\ CallCache
  /\ LET res == get_data(last'.ret, data') IN
       http' = Served("epochs", NoText, limit, offset, 1, None,
                      IF ~res.ok THEN Abort(500)
                      ELSE IF ParamRejected(limit) \/ ParamRejected(offset) THEN Abort(400)
                      ELSE epochs(limit, offset, Dataset(res.value)))

(* lines 293-326 *)
ServeEpochs(limit, offset) ==
  IF ParamRejected(limit) \/ ParamRejected(offset)
    THEN /\ http' = Served("epochs", NoText, limit, offset, 0, None, Abort(400))
         /\ UNCHANGED <<cache, now, last, threadVars, parsed>>
    ELSE /\ CallCache
         /\ LET res == get_data(last'.ret, data') IN
              http' = Served("epochs", NoText, limit, offset, 1, None,
                             IF res.ok THEN epochs(limit, offset, Dataset(res.value))
                                       ELSE Abort(500))

(* lines 328-357 *)
ServeEpoch(epoch) ==
  /\ CallCache
  /\ LET res == get_data(last'.ret, data') IN
       http' = Served("specific_epoch", epoch, None, None, 1, None,
                      IF res.ok THEN specific_epoch(epoch, Dataset(res.value))
                                ELSE Abort(500))

(* lines 359-374 *)
ServeEpochSpeed(epoch) ==
  /\ CallCache
  /\ LET res == get_data(last'.ret, data') IN
       http' = Served("specific_epoch_speed", epoch, None, None, 1, None,
                      IF res.ok THEN specific_epoch_speed(epoch, Dataset(res.value))
                                ELSE Abort(500))

(* lines 376-397 *)
ServeEpochLocation(epoch, geo) ==
  /\ CallCache
  /\ LET res == get_data(last'.ret, data') IN
       http' = [Served("specific_epoch_location", epoch, None, None, 1, None,
                       IF res.ok
                         THEN specific_epoch_location(epoch, Dataset(res.value), geo)
                         ELSE Abort(500))
                  EXCEPT !.geocoder = geo.kind]

ServeNow_ReversesDataset(geo) ==
  /\ IsFresh(data_timestamp, now)
  /\ data' = Some([i \in 1..Len(Dataset(data)) |->
                     Dataset(data)[Len(Dataset(data)) + 1 - i]])
  /\ UNCHANGED <<header, metadata, comments, data_timestamp, now, threadVars, parsed>>
  /\ last' = CallRecord(0, "none", None, "True", 0)
  /\ http' = [Served("now", NoText, None, None, 1, Some(Dataset(data)),
                     NowResponse(Dataset(data), now, geo))
                EXCEPT !.geocoder = geo.kind]

(* lines 399-419: the clock is read after get_data returned *)
ServeNow(geo) ==
  /\ CallCache
  /\ LET res == get_data(last'.ret, data') IN
       http' = [Served("now", NoText, None, None, 1,
                       IF res.ok THEN Some(Dataset(res.value)) ELSE None,
                       IF res.ok THEN NowResponse(Dataset(res.value), now', geo)
                                 ELSE Abort(500))
                  EXCEPT !.geocoder = geo.kind]

(* time passes between two requests; the response has been sent *)
TickApi ==
  /\ now < MaxTimeApi
  /\ now' = now + 1
  /\ http' = NoRequest
  /\ UNCHANGED <<cache, last, threadVars, parsed>>

NextApi ==
  \/ ServeComments
  \/ ServeHeader
  \/ ServeMetadata
  \/ \E limit \in PageParams, offset \in PageParams : ServeEpochs(limit, offset)
  \/ \E epoch \in Selectors : ServeEpoch(epoch)
  \/ \E epoch \in DerivedSelectors : ServeEpochSpeed(epoch)
  \/ \E epoch \in LocationSelectors, geo \in GeocoderOutcomes :
        ServeEpochLocation(epoch, geo)
  \/ \E geo \in GeocoderOutcomes : ServeNow(geo)
  \/ TickApi

SpecApi == Init /\ [][NextApi]_vars

----------------------------------------------------------------------------
(* speed and epochs run the way the test suite runs them: speed on an     *)
(* entry handed to it, epochs with get_data replaced by a stub that       *)
(* returns a list handed to it (test lines 249-261 and 391-461)           *)

MaxComponent == 2

(* the values a velocity component takes: the finite floats of the bound, *)
(* nan, both infinities, and a value of either sign whose square leaves   *)
(* the range of the floats at either end                                  *)
Components ==
  { Finite(n) : n \in (0 - MaxComponent)..MaxComponent }
    \cup { NaN, Infinity(1), Infinity(0 - 1), Huge(1), Huge(0 - 1), Tiny(1), Tiny(0 - 1) }

(* a formatted entry, as gen_random_formatted_data_entry makes one *)
FormattedEntry(minute, pos, vel) ==
  [timestamp |-> strptime(BaseStamp(minute, <<"0", "0", "0">>)).value,
   x |-> pos[1], y |-> pos[2], z |-> pos[3],
   dx |-> vel[1], dy |-> vel[2], dz |-> vel[3]]

(* the lists the stub returns: the empty one, one entry of every velocity, *)
(* and lists of two and three entries                                      *)
StubbedDatasets ==
  { <<>> }
    \cup { <<FormattedEntry(0, Vec(1, 2, 3), <<a, b, c>>)>> :
             a \in Components, b \in Components, c \in Components }
    \cup { <<FormattedEntry(0, Vec(1, 0, 0), Vec(3, 4, 0)),
             FormattedEntry(1, Vec(0, 1, 0), Vec(1, 1, 1))>>,
           <<FormattedEntry(2, Vec(0, 0, 1), Vec(0, 0, 0)),
             FormattedEntry(1, Vec(0, 1, 0), Vec(1, 2, 2)),
             FormattedEntry(0, Vec(1, 0, 0), Vec(2, 3, 6))>> }

InitStubbed ==
  /\ header = None
  /\ metadata = None
  /\ comments = None
  /\ data \in { Some(d) : d \in StubbedDatasets }
  /\ data_timestamp = None
  /\ now = 0
  /\ last = [pre |-> EmptyEntry, checkedAt |-> 0, calls |-> 0, outcome |-> "none",
             returned |-> None, ret |-> "none", doneAt |-> 0, prevRet |-> "none"]
  /\ pc = [t \in Threads |-> "idle"]
  /\ fetched = [t \in Threads |-> None]
  /\ got = [t \in Threads |-> NoResponse]
  /\ stamp_src = None
  /\ http = NoRequest
  /\ parsed = NoDocument

(* test lines 249-261: speed(entry) on the i-th entry of the list; the   *)
(* response is what speed returns or the fact that it raised             *)
CallSpeed(i) ==
  /\ i \in 1..Len(Dataset(data))
  /\ http' = Served("speed", NoText, None, None, 0, Some(<<Dataset(data)[i]>>),
                    speed(Dataset(data)[i]))
  /\ UNCHANGED <<cache, now, last, threadVars, parsed>>

(* lines 305-326 with the stub in the place of get_data *)
CallEpochs(limit, offset) ==
  /\ http' = IF ParamRejected(limit) \/ ParamRejected(offset)
               THEN Served("epochs", NoText, limit, offset, 0, None, Abort(400))
               ELSE Served("epochs", NoText, limit, offset, 1, None,
                           epochs(limit, offset, Dataset(data)))
  /\ UNCHANGED <<cache, now, last, threadVars, parsed>>

NextStubbed ==
  \/ \E i \in 1..Len(Dataset(data)) : CallSpeed(i)
  \/ \E limit \in PageParams, offset \in PageParams : CallEpochs(limit, offset)

SpecStubbed == InitStubbed /\ [][NextStubbed]_vars

----------------------------------------------------------------------------
(* Properties of the cache, one call at a time (Spec) *)

AllPresent ==
  /\ header # None
  /\ metadata # None
  /\ comments # None
  /\ data # None
  /\ data_timestamp # None

AllAbsent == Entry = EmptyEntry

Called == last.ret # "none"

(* the last call found an entry younger than the TTL *)
FoundFresh ==
  /\ Called
  /\ last.pre.data_timestamp # None
  /\ last.checkedAt - last.pre.data_timestamp[1] < TTL

(* the last call found no entry, or one aged the TTL or more *)
FoundStale ==
  /\ Called
  /\ \/ last.pre.data_timestamp = None
     \/ last.checkedAt - last.pre.data_timestamp[1] >= TTL

(* C1: a call that finds an entry younger than 15 minutes does not call    *)
(* _fetch_data, returns True and leaves all five cache fields as they      *)
(* were; data_timestamp is not advanced.                                   *)
C1_CacheHit ==
  FoundFresh => /\ last.calls = 0
                /\ last.ret = "True"
                /\ Entry = last.pre

C1_Witness ==
  /\ FoundFresh
  /\ last.checkedAt > last.pre.data_timestamp[1]
  /\ last.calls = 0
  /\ Entry = last.pre

(* C2: a call that finds the cache empty, or an entry aged 15 minutes or   *)
(* more (exactly 15 included), calls _fetch_data exactly once.             *)
C2_CacheMiss == FoundStale => last.calls = 1

C2_Witness ==
  /\ Called
  /\ last.pre.data_timestamp # None
  /\ last.checkedAt - last.pre.data_timestamp[1] = TTL
  /\ last.calls = 1

(* C3: when _fetch_data fails, the call returns False (it does not raise)  *)
(* and afterwards all five cache fields are None, whatever was cached.     *)
C3_FailedRefreshClears ==
  last.outcome = "err" => /\ last.ret = "False"
                          /\ AllAbsent

C3_Witness ==
  /\ last.outcome = "err"
  /\ last.pre.data # None
  /\ last.pre.data_timestamp # None
  /\ last.ret = "False"
  /\ AllAbsent

(* C4: when _fetch_data succeeds, afterwards header, metadata, comments    *)
(* and data are exactly what it returned, data_timestamp is the time the   *)
(* call completed, and the call returned True.                             *)
C4_RefreshReplaces ==
  last.outcome = "ok" =>
    /\ last.ret = "True"
    /\ header = Some(last.returned[1].header)
    /\ metadata = Some(last.returned[1].metadata)
    /\ comments = Some(last.returned[1].comments)
    /\ data = Some(last.returned[1].data)
    /\ data_timestamp = Some(last.doneAt)

C4_Witness ==
  /\ last.outcome = "ok"
  /\ last.pre.header # None
  /\ last.pre.header # header
  /\ last.pre.data # data
  /\ data_timestamp = Some(last.doneAt)
  /\ last.doneAt > last.checkedAt

(* C5: whenever a call returns True, the cache holds a dataset stamped     *)
(* less than 15 minutes before that call's staleness check.                *)
C5_NoStaleServed ==
  last.ret = "True" => /\ data # None
                       /\ data_timestamp # None
                       /\ last.checkedAt - data_timestamp[1] < TTL

C5_Witness ==
  /\ last.ret = "True"
  /\ last.prevRet = "False"
  /\ last.pre.data = None
  /\ data # None
  /\ last.checkedAt >= TTL

(* C6: the call that follows a failed call calls _fetch_data again,        *)
(* however soon it comes; when that fetch succeeds it returns True with    *)
(* the dataset just fetched.                                               *)
C6_RetryAfterFailure ==
  last.prevRet = "False" =>
    /\ last.calls = 1
    /\ last.outcome = "ok" => /\ last.ret = "True"
                              /\ data = Some(last.returned[1].data)

C6_Witness ==
  /\ last.prevRet = "False"
  /\ last.outcome = "ok"
  /\ last.ret = "True"
  /\ last.doneAt < TTL

----------------------------------------------------------------------------
(* Properties of the cache under concurrent requests (SpecConc) *)

(* a thread that has decided to refetch and has not yet finished writing *)
RefreshLabels ==
  { "fetch", "store_header", "store_metadata", "store_comments", "store_data",
    "store_timestamp", "clear_header", "clear_metadata", "clear_comments",
    "clear_data", "clear_timestamp" }

Refreshers == { t \in Threads : pc[t] \in RefreshLabels }

(* the five fields are all None, or all come from one refresh *)
EntryWhole ==
  \/ AllAbsent
  \/ \E r \in FeedResults :
       /\ header = Some(r.header)
       /\ metadata = Some(r.metadata)
       /\ comments = Some(r.comments)
       /\ data = Some(r.data)
       /\ data_timestamp # None
       /\ stamp_src = Some(r)

(* C8: test, decision, fetch and replacement are one critical section: at  *)
(* no time have two requests both decided to refetch the entry, and at no  *)
(* time are two requests both writing it.                                  *)
C8_SingleRefresher == Cardinality(Refreshers) <= 1

(* C9: a request about to read the cache after fetch_current_data returned *)
(* True never finds a half-replaced entry: the five fields come from one   *)
(* refresh or are all None.                                                *)
C9_AtomicSwap == \A t \in Threads : pc[t] = "read" => EntryWhole

(* C10: a call waiting for the upstream can always go on by itself (a      *)
(* bounded timeout ends the wait), so no call blocks for ever.             *)
C10_NoIndefiniteBlock == \A t \in Threads : pc[t] = "fetch" => ENABLED OwnStep(t)

----------------------------------------------------------------------------
(* Properties of the handlers, one request at a time (SpecApi) *)

(* the dataset the cache holds *)
Stored == Dataset(data)

(* the request called get_data, and fetch_current_data returned False *)
CacheFailed == http.getDataCalls = 1 /\ last.ret = "False"

(* the request called get_data, which returned the cache field *)
GotData == http.getDataCalls = 1 /\ last.ret = "True"

(* C11: whenever fetch_current_data returns False to get_data, the handler *)
(* that called it (any of the eight) ends with status 500 and no body, and *)
(* the five cache fields are None at that point.                           *)
C11_CacheFailureIs500 ==
  CacheFailed => /\ http.response = Abort(500)
                 /\ AllAbsent

C11_Witness ==
  /\ http.handler = "now"
  /\ CacheFailed
  /\ http.response.status = 500
  /\ last.outcome = "err"

(* C12: for a selector of decimal digits with value n and a stored dataset *)
(* of length L, specific_epoch answers with the element at zero-based      *)
(* position n in stored order when n < L, and with status 400 when n >= L. *)
C12_LookupByPosition ==
  (http.handler = "specific_epoch" /\ GotData /\ int(http.selector).ok) =>
     LET n == int(http.selector).value IN
       IF n < Len(Stored)
         THEN http.response = Response(200, Some([epoch |-> Some(Stored[n + 1])]))
         ELSE http.response = Abort(400)

(* position 2 of a dataset of three that is not in time order *)
C12_Witness ==
  /\ http.handler = "specific_epoch"
  /\ GotData
  /\ http.selector = PlainText(<<"2">>)
  /\ Len(Stored) = 3
  /\ Stored[1].timestamp.ms > Stored[2].timestamp.ms
  /\ http.response.status = 200
  /\ http.response.body[1].epoch = Some(Stored[3])

(* the positions of the stored entries at the instant the selector names *)
Matching ==
  { i \in 1..Len(Stored) : Stored[i].timestamp = strptime(http.selector).value }

(* C13: a selector that is not made of decimal digits only and that does   *)
(* not parse in the timestamp format is answered by specific_epoch with    *)
(* status 400: never a record, never {'epoch': None}, never a 500.         *)
C13_UnparseableIs400 ==
  (/\ http.handler = "specific_epoch"
   /\ GotData
   /\ ~int(http.selector).ok
   /\ ~strptime(http.selector).ok) => http.response = Abort(400)

(* C14: for a selector that parses as a timestamp, specific_epoch answers  *)
(* {'epoch': None} with status 200 when no stored entry is at that         *)
(* instant, and the one entry at that instant, wherever it is stored, when *)
(* there is exactly one.                                                   *)
C14_LookupByTimestamp ==
  (/\ http.handler = "specific_epoch"
   /\ GotData
   /\ strptime(http.selector).ok) =>
     /\ Matching = {} => http.response = Response(200, Some([epoch |-> None]))
     /\ \A i \in Matching :
          Matching = {i} =>
            http.response = Response(200, Some([epoch |-> Some(Stored[i])]))

(* C15: when two or more stored entries are at the instant a timestamp     *)
(* selector names, specific_epoch ends with status 500 and no body.        *)
C15_DuplicatesAre500 ==
  (/\ http.handler = "specific_epoch"
   /\ GotData
   /\ strptime(http.selector).ok
   /\ Cardinality(Matching) >= 2) => http.response = Abort(500)

C15_Witness ==
  /\ http.handler = "specific_epoch"
  /\ GotData
  /\ strptime(http.selector).ok
  /\ Matching = {1, 3}
  /\ http.response.status = 500

(* a query parameter that is given and has a character that is no digit of *)
(* any script                                                              *)
GivenNonNumeric(p) ==
  /\ p # None
  /\ \E i \in 1..Len(p[1].chars) : p[1].chars[i] \notin NumericChars

(* a query parameter that is given and is not a decimal integer *)
NotDecimal(p) == p # None /\ ~int(p[1]).ok

(* the number a query parameter stands for, with its default *)
ParamValue(p, default) == IF p = None THEN default ELSE int(p[1]).value

(* C16 as stated: a request with malformed input (an unparseable selector, *)
(* an index out of range, bad pagination parameters) gets its status 400   *)
(* before the cache is consulted: fetch_current_data is not called for it. *)
C16_RejectedBeforeData ==
  (http.handler \in {"epochs", "specific_epoch"} /\ http.response.status = 400)
     => http.getDataCalls = 0

(* C16, amended: epochs rejects a limit or offset that is not numeric with *)
(* status 400 before the cache is consulted; every other status 400 of     *)
(* epochs and specific_epoch (unparseable selector, index out of range,    *)
(* limit 0, offset not below the length) comes after exactly one call of   *)
(* fetch_current_data, which returned True.                                *)
C16_RejectionOrder ==
  /\ (/\ http.handler = "epochs"
      /\ GivenNonNumeric(http.limit) \/ GivenNonNumeric(http.offset))
       => /\ http.response = Abort(400)
          /\ http.getDataCalls = 0
  /\ (/\ http.handler \in {"epochs", "specific_epoch"}
      /\ http.response.status = 400
      /\ ~(GivenNonNumeric(http.limit) \/ GivenNonNumeric(http.offset)))
       => GotData

(* a limit that is not numeric is rejected while the cache holds nothing, *)
(* and the cache still holds nothing                                      *)
C16_Witness ==
  /\ http.handler = "epochs"
  /\ http.limit = Some(PlainText(<<"x">>))
  /\ http.offset = None
  /\ http.response.status = 400
  /\ http.getDataCalls = 0
  /\ AllAbsent

(* C17: for a stored dataset of length L, an offset o < L (0 when absent)  *)
(* and a limit l > 0 (L - o when absent), epochs answers with exactly the  *)
(* elements at positions o .. min(o + l, L) - 1, in stored order.          *)
C17_Pagination ==
  (/\ http.handler = "epochs"
   /\ GotData
   /\ ~NotDecimal(http.limit)
   /\ ~NotDecimal(http.offset)
   /\ ParamValue(http.offset, 0) < Len(Stored)
   /\ ParamValue(http.limit, 1) > 0) =>
     LET o == ParamValue(http.offset, 0)
         l == ParamValue(http.limit, Len(Stored) - o)
     IN  http.response =
           Response(200, Some([data |-> [k \in 1..(Min(o + l, Len(Stored)) - o)
                                           |-> Stored[o + k]]]))

(* the limit reaches past the end and is cut to the one element left *)
C17_Witness ==
  /\ http.handler = "epochs"
  /\ GotData
  /\ http.offset = Some(PlainText(<<"1">>))
  /\ http.limit = Some(PlainText(<<"2">>))
  /\ Len(Stored) = 2
  /\ http.response.status = 200
  /\ http.response.body[1].data = <<Stored[2]>>

(* C18: epochs answers with status 400 and no body every request whose     *)
(* limit or offset is not a non-negative decimal integer, whose limit is   *)
(* 0, or whose offset is not below the length of the dataset.              *)
C18_PaginationErrors ==
  (/\ http.handler = "epochs"
   /\ http.getDataCalls = 0 \/ GotData
   /\ \/ NotDecimal(http.limit)
      \/ NotDecimal(http.offset)
      \/ http.limit # None /\ ParamValue(http.limit, 1) = 0
      \/ ParamValue(http.offset, 0) >= Len(Stored)) => http.response = Abort(400)

(* how far the stored entry at position i is from the clock reading *)
DeltaAt(i) == Abs(NowTimestamp(now) - Stored[i].timestamp.ms)

(* C19: on a non-empty dataset in any order get_most_current_epoch, as now *)
(* calls it, returns an element whose distance to the clock reading is     *)
(* minimal, and of several such elements the first in stored order.        *)
C19_Nearest ==
  (http.handler = "now" /\ GotData /\ Stored # <<>>) =>
     /\ http.response.status = 200
     /\ \E i \in 1..Len(Stored) :
          /\ http.response.body[1].epoch = Stored[i]
          /\ \A j \in 1..Len(Stored) : DeltaAt(i) <= DeltaAt(j)
          /\ \A j \in 1..(i - 1) : DeltaAt(i) < DeltaAt(j)

(* two entries equally far from the clock, the later one stored first *)
C19_Witness ==
  /\ http.handler = "now"
  /\ GotData
  /\ Len(Stored) = 2
  /\ Stored[1].timestamp.ms > Stored[2].timestamp.ms
  /\ DeltaAt(1) = DeltaAt(2)
  /\ http.response.status = 200
  /\ http.response.body[1].epoch = Stored[1]

(* C20: now never runs get_most_current_epoch, speed or location on an     *)
(* empty dataset: a dataset the cache holds is never empty, and when the   *)
(* cache failed get_data has ended the request with status 500 before any  *)
(* of the three ran.                                                       *)
C20_NeverNearestOnEmpty ==
  /\ data # None => Stored # <<>>
  /\ (http.handler = "now" /\ http.searched # None) => http.searched[1] # <<>>
  /\ (http.handler = "now" /\ CacheFailed) =>
       /\ http.searched = None
       /\ http.response = Abort(500)

(* now, served from a dataset fetched right after a failed fetch *)
C20_Witness ==
  /\ http.handler = "now"
  /\ GotData
  /\ last.prevRet = "False"
  /\ last.calls = 1
  /\ http.searched = Some(Stored)
  /\ http.response.status = 200

(* what specific_epoch answers to the selector of the request *)
Resolved == specific_epoch(http.selector, Stored)

(* specific_epoch found exactly one record *)
ResolvedRecord == Resolved.body # None /\ Resolved.body[1].epoch # None

(* the geocoder raised, returned None, or a result without the attributes *)
GeocoderFailed == http.geocoder \in {"raises", "none", "odd"}

(* C21: when specific_epoch yields {'epoch': None}, specific_epoch_speed    *)
(* and specific_epoch_location end with status 400 and no body; when it     *)
(* yields a record, they answer with the speed / the location of exactly    *)
(* that record.                                                             *)
C21_AbsentEpochIs400 ==
  (http.handler \in {"specific_epoch_speed", "specific_epoch_location"} /\ GotData) =>
     /\ Resolved = Response(200, Some([epoch |-> None])) => http.response = Abort(400)
     /\ ResolvedRecord =>
          /\ http.response.status = 200
          /\ http.handler = "specific_epoch_speed" =>
               http.response.body[1].speed = speed(Resolved.body[1].epoch[1]).value
          /\ http.handler = "specific_epoch_location" =>
               http.response.body[1].lla =
                 astropy_lla_conversion(Resolved.body[1].epoch[1])

(* the speed of a well-formed timestamp that no stored entry has *)
C21_Witness ==
  /\ http.handler = "specific_epoch_speed"
  /\ GotData
  /\ strptime(http.selector).ok
  /\ Matching = {}
  /\ http.response = Abort(400)

(* C22: when the reverse geocoding raises, returns None or returns a result *)
(* of unexpected shape, fetch_location_str gives the empty string, and the  *)
(* requests that use location (epoch location, now) still end with status   *)
(* 200 and the lat/lon/altitude of their record.                            *)
C22_LocationLabelDegrades ==
  (GotData /\ GeocoderFailed) =>
     /\ (http.handler = "now" /\ Stored # <<>>) =>
          /\ http.response.status = 200
          /\ http.response.body[1].location =
               [lla |-> astropy_lla_conversion(http.response.body[1].epoch),
                locstr |-> <<>>]
     /\ (http.handler = "specific_epoch_location" /\ ResolvedRecord) =>
          http.response =
            Response(200, Some([lla |-> astropy_lla_conversion(Resolved.body[1].epoch[1]),
                                locstr |-> <<>>]))

(* the location of a stored record while the geocoder raises *)
C22_Witness ==
  /\ http.handler = "specific_epoch_location"
  /\ GotData
  /\ http.geocoder = "raises"
  /\ ResolvedRecord
  /\ http.response.status = 200
  /\ http.response.body[1].locstr = <<>>

(* C25: epochs rejects a non-numeric limit or offset with status 400        *)
(* without calling get_data; it calls get_data exactly once for every other *)
(* request, so limit = 0 and offset >= length are rejected with status 400  *)
(* after that one call, and every successful request has made that call.    *)
C25_PaginationCheckOrder ==
  http.handler = "epochs" =>
    /\ (GivenNonNumeric(http.limit) \/ GivenNonNumeric(http.offset)) =>
         /\ http.getDataCalls = 0
         /\ http.response = Abort(400)
    /\ ~(GivenNonNumeric(http.limit) \/ GivenNonNumeric(http.offset)) =>
         http.getDataCalls = 1
    /\ (/\ GotData
        /\ ~NotDecimal(http.limit)
        /\ ~NotDecimal(http.offset)
        /\ \/ http.limit # None /\ ParamValue(http.limit, 1) = 0
           \/ ParamValue(http.offset, 0) >= Len(Stored)) =>
         http.response = Abort(400)
    /\ http.response.status = 200 => http.getDataCalls = 1

(* limit=0 is rejected after the dataset was obtained *)
C25_Witness ==
  /\ http.handler = "epochs"
  /\ http.limit = Some(PlainText(<<"0">>))
  /\ http.offset = None
  /\ GotData
  /\ http.response = Abort(400)

(* the five fields as the refresh recorded in last wrote them *)
RefreshedEntry ==
  [header |-> Some(last.returned[1].header),
   metadata |-> Some(last.returned[1].metadata),
   comments |-> Some(last.returned[1].comments),
   data |-> Some(last.returned[1].data),
   data_timestamp |-> Some(last.doneAt)]

(* C26: a request changes the five cache fields only through its one       *)
(* fetch_current_data call: a request that does not call get_data and a     *)
(* request served from a fresh entry leave all five as they were (content   *)
(* and order of the dataset included); otherwise the fields are what the    *)
(* refresh stored, or all None after a failed fetch.                        *)
C26_OnlyCacheWrites ==
  [][ /\ http'.getDataCalls = 0 => UNCHANGED cache
      /\ http'.getDataCalls = 1 =>
           \/ last'.calls = 0 /\ UNCHANGED cache
           \/ last'.calls = 1 /\ last'.outcome = "ok" /\ Entry' = RefreshedEntry'
           \/ last'.calls = 1 /\ last'.outcome = "err" /\ AllAbsent' ]_vars

(* now, served from a fresh entry that is still what it was *)
C26_Witness ==
  /\ http.handler = "now"
  /\ GotData
  /\ last.calls = 0
  /\ Entry = last.pre
  /\ http.response.status = 200

----------------------------------------------------------------------------
(* Properties of the cache under concurrent requests, continued (SpecConc) *)

(* C27: a cache entry younger than 15 minutes is never cleared or          *)
(* overwritten, also under concurrent requests: no step changes any of the *)
(* five fields while the entry is fresh.                                   *)
C27_FreshEntryKept ==
  [][ IsFresh(data_timestamp, now) => UNCHANGED cache ]_vars

(* C28: whenever get_data returns normally, the value it returns for       *)
(* 'epochs', 'header', 'metadata' or 'comments' is the present cached      *)
(* value, never None, also when another request's failing refresh runs     *)
(* between the check and the read.                                         *)
C28_NeverHandsOutNone ==
  \A t \in Threads : got[t].status = "200" => got[t].value # None

----------------------------------------------------------------------------
(* Properties of _fetch_data, seen through the call that ran it (Spec) *)

(* the last call sent the document parsed.doc to _fetch_data *)
Fetched == parsed.sent /\ last.calls = 1

(* the document lacks something _fetch_data needs, or is no XML at all *)
Malformed(doc) ==
  \/ ~doc.xml
  \/ ~doc.oem
  \/ \E i \in 1..Len(doc.header) : doc.header[i].type # "str"
  \/ \E i \in 1..Len(doc.metadata) : doc.metadata[i].type # "str"
  \/ doc.stateVector.shape # "list"
  \/ \E i \in 1..Len(doc.stateVector.items) : ~strptime(doc.stateVector.items[i].EPOCH).ok
  \/ \E i \in 1..Len(doc.stateVector.items) : ~FloatsRead(doc.stateVector.items[i])

(* every value that matches the pattern is a datetime, every other value *)
(* is the text it was                                                     *)
AllMatchingConverted(raw, out) ==
  /\ Len(out) = Len(raw)
  /\ \A i \in 1..Len(raw) :
       IF fullmatch(raw[i].text) THEN out[i].type = "datetime"
                                 ELSE out[i] = raw[i]

(* every value that matches the pattern and names a date is that instant, *)
(* every other value is the text it was                                   *)
ValidMatchingConverted(raw, out) ==
  /\ Len(out) = Len(raw)
  /\ \A i \in 1..Len(raw) :
       IF fullmatch(raw[i].text) /\ strptime(raw[i].text).ok
         THEN out[i] = DatetimeValue(strptime(raw[i].text).value)
         ELSE out[i] = raw[i]

(* C23 as stated: in the header and metadata a successful _fetch_data      *)
(* returns, every value that matches the timestamp pattern is a time       *)
(* instant and every other value is the original text; a malformed or      *)
(* incomplete payload makes _fetch_data fail with 'Invalid data format'.   *)
C23_SidecarConversion ==
  Fetched =>
    /\ last.outcome = "ok" =>
         /\ AllMatchingConverted(parsed.doc.header, last.returned[1].header)
         /\ AllMatchingConverted(parsed.doc.metadata, last.returned[1].metadata)
    /\ Malformed(parsed.doc) =>
         /\ last.outcome = "err"
         /\ parsed.error = "Invalid data format"

(* C23, amended: a value that matches the pattern and names a valid date   *)
(* and time is converted to that instant; a matching value that names none *)
(* (day 000) and every value that does not match stay the original text.   *)
(* A payload that is XML but malformed or incomplete makes _fetch_data     *)
(* fail with 'Invalid data format', a payload that is not XML with the     *)
(* error of the XML parser; either way nothing is returned or stored.      *)
C23_SidecarConversionOfDates ==
  Fetched =>
    /\ last.outcome = "ok" =>
         /\ ValidMatchingConverted(parsed.doc.header, last.returned[1].header)
         /\ ValidMatchingConverted(parsed.doc.metadata, last.returned[1].metadata)
    /\ Malformed(parsed.doc) =>
         /\ last.outcome = "err"
         /\ last.returned = None
         /\ AllAbsent
         /\ parsed.error = IF parsed.doc.xml THEN "Invalid data format" ELSE "ExpatError"

(* a returned metadata with one matching value converted and one matching *)
(* value kept as text                                                     *)
C23_Witness ==
  /\ Fetched
  /\ last.outcome = "ok"
  /\ \E i, j \in 1..Len(parsed.doc.metadata) :
       /\ fullmatch(parsed.doc.metadata[i].text)
       /\ last.returned[1].metadata[i].type = "str"
       /\ fullmatch(parsed.doc.metadata[j].text)
       /\ last.returned[1].metadata[j].type = "datetime"


----------------------------------------------------------------------------
(* Properties of speed and epochs, called on given entries and lists      *)
(* (SpecStubbed)                                                          *)

(* speed was called; the entry it was called on, and its velocity *)
SpeedCalled == http.handler = "speed"

SpeedArgument == http.searched[1][1]

Velocity == <<SpeedArgument.dx, SpeedArgument.dy, SpeedArgument.dz>>

Kinds == { Velocity[i].kind : i \in 1..3 }

(* dx*dx + dy*dy + dz*dz over the components that are finite floats *)
SumOfSquares ==
  LET sq(c) == IF c.kind = "finite" THEN c.v * c.v ELSE 0
  IN  sq(Velocity[1]) + sq(Velocity[2]) + sq(Velocity[3])

(* the same entry at another place and another time *)
Elsewhere(e) ==
  [e EXCEPT !.x = Finite(5), !.y = Finite(6), !.z = Finite(7),
            !.timestamp = strptime(BaseStamp(3, <<"0", "0", "0">>)).value]

EpochsCalled == http.handler = "epochs"

C29_DataNeverEmpty ==
  (EpochsCalled /\ http.response.status = 200) =>
     LET o == ParamValue(http.offset, 0)
         l == ParamValue(http.limit, Len(Stored) - o)
     IN  /\ Len(http.response.body[1].data) = Min(l, Len(Stored) - o)
         /\ Len(http.response.body[1].data) >= 1

====
